---- MODULE Spec2Model ----
(***************************************************************************)
(* The container monitor of atlantis-supervisor (monitor.go): Run loads    *)
(* the container inventory, starts one ContainerCheck.Run per container,   *)
(* each of which lists the check scripts over ssh, registers every service *)
(* once (tracked by a marker file in the inventory directory) and races    *)
(* each script against a timeout; Run then walks the inventory directory   *)
(* and removes the markers of containers that are gone.                    *)
(*                                                                         *)
(* Strings are sequences of atoms.  An atom stands for one or more         *)
(* characters, none of which is a separator (" ", "\n", "_", ".", "/"),    *)
(* and every separator is an atom of its own, so that strings.Split,       *)
(* strings.SplitN, strings.TrimSpace and fmt.Sprintf are computed as the   *)
(* library computes them.                                                  *)
(***************************************************************************)
EXTENDS Integers, Sequences, FiniteSets, TLC

VARIABLES
    pc,          \* position of Run: "stat", "retrieve", "spawn", "wait", "walk", "done"
    run,         \* number of the current invocation of the monitor
    contFile,    \* config.ContainerFile on disk: [state, conts]
    contMap,     \* contMap of Run: the keys of the retrieved inventory
    inventoryDir,\* config.InventoryDir
    fsDir,       \* whether the inventory directory exists
    markers,     \* names of the marker files in the inventory directory
    regLog,      \* calls of "cmk_admin -s": set of [run, c, i, svc, grp, ok]
    reinvDone,   \* whether "cmk_admin -I" was run in this invocation
    spawned,     \* containers whose ContainerCheck.Run goroutine was started
    doneCh,      \* number of values buffered in Run's channel done
    doneSent,    \* per container: values it has sent on done
    received,    \* values Run has received from done
    cpc,         \* per container: position of ContainerCheck.Run / checkAll
    scripts,     \* per container: scripts of ContainerCheck.Run
    idx,         \* per container: index of checkAll's first loop
    results,     \* per container: values buffered in checkAll's channel results
    recvd,       \* per container: values checkAll's second loop has received
    wk,          \* per check: position of checkWithTimeout
    rc,          \* per check: position of runCheck
    dch,         \* per check: values buffered in checkWithTimeout's channel done
    age,         \* per check: time since checkWithTimeout started, while it matters
    dur,         \* per check: time the remote script takes
    hung,        \* per check: the remote script never returns
    walkList,    \* entries of the inventory directory the walk has still to visit
    stdout,      \* what was printed: set of [site, c, i, at, text]
    valArg,      \* validate called on its own: the receiver's Service and the argument msg
    valRet       \* validate called on its own: whether it has returned, and what

vars == <<pc, run, contFile, contMap, inventoryDir, fsDir, markers, regLog,
          reinvDone, spawned, doneCh, doneSent, received, cpc, scripts, idx, results,
          recvd, wk, rc, dch, age, dur, hung, walkList, stdout, valArg, valRet>>

---------------------------------------------------------------------------
(* Bounds of the model *)

MaxRuns == 2          \* invocations of the monitor in one behaviour
MaxDur == 3           \* longest duration of a remote script that returns
Timeout == 2          \* config.TimeoutDuration, in units of the model's time
MaxWords == 4         \* longest output of a script handed to validate, in words

---------------------------------------------------------------------------
(* Severities, monitor.go 28-33 *)

OK == 0
Warning == 1
Critical == 2
Uknown == 3

Digit(n) == CASE n = 0 -> "0" [] n = 1 -> "1" [] n = 2 -> "2" [] OTHER -> "3"

---------------------------------------------------------------------------
(* Strings *)

SP == " "
NL == "\n"
US == "_"
DOT == "."
SL == "/"

Last(s) == s[Len(s)]

RECURSIVE SplitAcc(_, _, _, _)
SplitAcc(s, sep, cur, acc) ==
    IF s = <<>> THEN Append(acc, cur)
    ELSE IF Head(s) = sep THEN SplitAcc(Tail(s), sep, <<>>, Append(acc, cur))
    ELSE SplitAcc(Tail(s), sep, Append(cur, Head(s)), acc)

\* strings.Split(s, sep): the substrings between the separators
Split(s, sep) == SplitAcc(s, sep, <<>>, <<>>)

RECURSIVE SplitNAcc(_, _, _, _, _)
SplitNAcc(s, sep, n, cur, acc) ==
    IF n <= 1 THEN Append(acc, cur \o s)
    ELSE IF s = <<>> THEN Append(acc, cur)
    ELSE IF Head(s) = sep THEN SplitNAcc(Tail(s), sep, n - 1, <<>>, Append(acc, cur))
    ELSE SplitNAcc(Tail(s), sep, n, Append(cur, Head(s)), acc)

\* strings.SplitN(s, sep, n), n > 0: at most n substrings, the last the unsplit rest
SplitN(s, sep, n) == SplitNAcc(s, sep, n, <<>>, <<>>)

IsSpace(a) == a \in {SP, NL, "\t"}

RECURSIVE TrimLeft(_)
TrimLeft(s) == IF s # <<>> /\ IsSpace(Head(s)) THEN TrimLeft(Tail(s)) ELSE s

RECURSIVE TrimRight(_)
TrimRight(s) ==
    IF s # <<>> /\ IsSpace(Last(s)) THEN TrimRight(SubSeq(s, 1, Len(s) - 1)) ELSE s

\* strings.TrimSpace
TrimSpace(s) == TrimRight(TrimLeft(s))

\* path.Join(dir, name) of a clean dir and a name without "/"
PathJoin(dir, name) == dir \o <<SL>> \o name

---------------------------------------------------------------------------
(* Configuration, monitor.go 65-73, and the inputs of a run *)

CheckName == <<"ContainerMonitor">>
CheckDir == <<SL, "check", US, "mk", US, "checks">>
ContainerFile == <<SL, "etc", SL, "atlantis", SL, "supervisor", SL, "save", SL, "containers">>
DefaultInventoryDir == <<SL, "etc", SL, "atlantis", SL, "supervisor", SL, "inventory">>

\* inventory_dir can be set in the config file; the second value is a directory whose
\* name ends in "_" and the id of a container
InventoryDirs == {DefaultInventoryDir, <<SL, "var", SL, "inv", US, "c1">>}

ContainerIDs == {<<"c1">>, <<"x", US, "c2">>}

Inventories == SUBSET ContainerIDs

\* the container file: absent, not deserializable, or holding an inventory
ContFiles ==
    {[state |-> "absent", conts |-> {}], [state |-> "corrupt", conts |-> {}]}
        \cup {[state |-> "ok", conts |-> I] : I \in Inventories}

\* Manifest.Deps of a container: dependency name -> DataMap
Deps(c) ==
    IF c = <<"c1">> THEN [n \in {"cmk"} |-> [k \in {"contact_group"} |-> <<"ops">>]]
    ELSE [n \in {} |-> [k \in {} |-> <<>>]]

Nil == <<>>                                   \* the nil error
ExitErr == <<"exit", SP, "status", SP, "1">>  \* err.Error() of a failed command

\* the listing of the check directory of a container that has check scripts
Listing(c) ==
    IF c = <<"c1">> THEN <<"cpu", DOT, "sh", NL, "mem", DOT, "sh", NL>>
    ELSE <<"cpu", DOT, "sh", NL>>

\* what "ls <CheckDir>" over ssh can return for a container: a failure, nothing, a
\* blank line, the listing
LsResults(c) ==
    {[err |-> ExitErr, out |-> <<>>],
     [err |-> Nil, out |-> <<>>],
     [err |-> Nil, out |-> <<NL>>],
     [err |-> Nil, out |-> Listing(c)]}

SeqMax(S) == CHOOSE n \in S : \A m \in S : m <= n

NumScripts(c) == SeqMax({Len(Split(TrimSpace(r.out), NL)) : r \in LsResults(c)})

Checks == UNION {{<<c, i>> : i \in 1 .. NumScripts(c)} : c \in ContainerIDs}

\* the check whose remote script is left free in what it returns and when; the other
\* scripts return their status line or fail, at once or never
FreeCheck == <<<<"c1">>, 1>>

\* what the remote script of check k, of service svc, can return: a failure of the
\* command, a status line for svc, a status line for another service, a line
\* without a status
ScriptResults(k, svc) ==
    {[err |-> ExitErr, out |-> <<>>],
     [err |-> Nil, out |-> <<"0", SP>> \o svc \o <<SP, "-", SP, "ok", NL>>]}
        \cup IF k = FreeCheck
             THEN {[err |-> Nil, out |-> <<"0", SP, "other", SP, "-", SP, "ok", NL>>],
                   [err |-> Nil, out |-> <<"Traceback", NL>>]}
             ELSE {}

\* how long the remote script of check k takes: 1 .. MaxDur, or for ever
Durations(k) ==
    {[hung |-> FALSE, d |-> 1], [hung |-> TRUE, d |-> 1]}
        \cup IF k = FreeCheck THEN {[hung |-> FALSE, d |-> n] : n \in 2 .. MaxDur} ELSE {}

\* the inventory directory before the first run
InitialFS ==
    {[dir |-> FALSE, files |-> {}],
     [dir |-> TRUE, files |-> {}],
     [dir |-> TRUE, files |-> {<<"cpu", US, "c1">>, <<"cpu", US, "x", US, "c2">>,
                               <<"mem", US, "x", US, "c2">>}]}

---------------------------------------------------------------------------
(* Lines *)

\* ServiceCheck.timeOutMsg
timeOutMsg(svc) ==
    <<Digit(Critical), SP>> \o svc
        \o <<SP, "-", SP, "Timeout", SP, "occured", SP, "during", SP, "check", NL>>

\* ServiceCheck.errMsg
errMsg(svc, err) ==
    IF err # Nil THEN <<Digit(Critical), SP>> \o svc \o <<SP, "-", SP>> \o err \o <<NL>>
    ELSE <<Digit(Critical), SP>> \o svc
             \o <<SP, "-", SP, "Error", SP, "encountered", SP, "while", SP, "monitoring",
                  SP, "the", SP, "service", NL>>

\* a validate that looks at the first field
validateFirstField(svc, msg) ==
    LET m == SplitN(msg, SP, 4)
    IN  IF Len(m) > 1 /\ m[1] = svc THEN msg ELSE errMsg(svc, Nil)

\* ServiceCheck.validate
validate(svc, msg) ==
    LET m == SplitN(msg, SP, 4)
    IN  IF Len(m) > 1 /\ m[2] = svc THEN msg ELSE errMsg(svc, Nil)

\* the line runCheck prints for the result res of the remote command
checkLine(svc, res) ==
    IF res.err # Nil THEN errMsg(svc, res.err) ELSE validate(svc, res.out)

\* serviceName of checkAll and serviceCheck
serviceName(script, id) == Split(script, DOT)[1] \o <<US>> \o id

\* ContainerCheck.Name, set by Run
containerName(id) == CheckName \o <<US>> \o id

\* contact_group of checkAll
contactGroup(c) ==
    IF "cmk" \in DOMAIN Deps(c) /\ "contact_group" \in DOMAIN Deps(c)["cmk"]
    THEN Deps(c)["cmk"]["contact_group"]
    ELSE <<"atlantis", US, "orphan", US, "apps">>

lsErrLine(c, err) ==
    <<Digit(Critical), SP>> \o containerName(c)
        \o <<SP, "-", SP, "Error", SP, "getting", SP, "checks", SP, "for", SP,
             "container:", NL>> \o err \o <<NL>>

gotChecksLine(c) ==
    <<Digit(OK), SP>> \o containerName(c)
        \o <<SP, "-", SP, "Got", SP, "checks", SP, "for", SP, "container", NL>>

regFailLine(svc, err) ==
    <<"Failure", SP, "to", SP, "update", SP, "contact", SP, "group", SP, "for", SP,
      "service", SP>> \o svc \o <<".", SP, "Error:", NL>> \o err \o <<NL>>

noDirLine ==
    <<Digit(OK), SP>> \o CheckName
        \o <<SP, "-", SP, "Directory", SP, "does", SP, "not", SP, "exists", SP>>
        \o ContainerFile \o <<NL>>

openLine ==
    <<Digit(OK), SP>> \o CheckName \o <<SP, "-", SP, "Able", SP, "to", SP, "open", SP>>
        \o ContainerFile \o <<NL>>

retrieveErrLine ==
    <<Digit(Critical), SP>> \o CheckName
        \o <<SP, "-", SP, "Could", SP, "not", SP, "retrieve", SP>> \o ContainerFile
        \o <<":", SP>> \o ExitErr \o <<NL>>

walkErrLine ==
    <<"Error", SP, "iterating", SP, "over", SP, "inventory", SP, "to", SP, "delete", SP,
      "obsolete", SP, "markers.", SP, "Error:", NL>> \o ExitErr \o <<NL>>

NoC == <<>>    \* the container of a line of Run itself

Ev(site, c, i, at, text) == [site |-> site, c |-> c, i |-> i, at |-> at, text |-> text]

---------------------------------------------------------------------------
(* The state after the process has started *)

FreshRun ==
    /\ pc = "stat"
    /\ contMap = {}
    /\ reinvDone = FALSE
    /\ spawned = {}
    /\ doneCh = 0
    /\ doneSent = [c \in ContainerIDs |-> 0]
    /\ received = 0
    /\ cpc = [c \in ContainerIDs |-> "idle"]
    /\ scripts = [c \in ContainerIDs |-> <<>>]
    /\ idx = [c \in ContainerIDs |-> 1]
    /\ results = [c \in ContainerIDs |-> 0]
    /\ recvd = [c \in ContainerIDs |-> 0]
    /\ wk = [k \in Checks |-> "none"]
    /\ rc = [k \in Checks |-> "none"]
    /\ dch = [k \in Checks |-> 0]
    /\ age = [k \in Checks |-> 0]
    /\ dur = [k \in Checks |-> 1]
    /\ hung = [k \in Checks |-> FALSE]
    /\ walkList = <<>>
    /\ stdout = {}

Init ==
    /\ run = 1
    /\ contFile \in ContFiles
    /\ inventoryDir \in InventoryDirs
    /\ \E fs \in InitialFS : fsDir = fs.dir /\ markers = fs.files
    /\ regLog = {}
    /\ FreshRun
    /\ valArg = [svc |-> <<>>, msg |-> <<>>]
    /\ valRet = [done |-> FALSE, out |-> <<>>]

config == <<inventoryDir>>
unit == <<valArg, valRet>>
disk == <<fsDir, markers>>
orch == <<pc, contMap, reinvDone, spawned, received, walkList>>
conts == <<cpc, scripts, idx, recvd>>
checks == <<wk, rc, dch, age, dur, hung>>

---------------------------------------------------------------------------
(* Run, monitor.go 217-258 *)

\* a Run that prints the line of the missing container file and goes on
RunStatGoesOn ==
    /\ pc = "stat"
    /\ stdout' = IF contFile.state = "absent"
                 THEN stdout \cup {Ev("noDir", NoC, 0, 0, noDirLine)} ELSE stdout
    /\ pc' = "retrieve"
    /\ UNCHANGED <<run, contFile, config, unit, disk, regLog, contMap, reinvDone, spawned,
                   received, walkList, doneCh, doneSent, conts, results, checks>>

\* os.Stat(config.ContainerFile), 221-225
RunStat ==
    /\ pc = "stat"
    /\ IF contFile.state = "absent"
       THEN /\ stdout' = stdout \cup {Ev("noDir", NoC, 0, 0, noDirLine)}
            /\ pc' = "done"
       ELSE /\ pc' = "retrieve"
            /\ UNCHANGED stdout
    /\ UNCHANGED <<run, contFile, config, unit, disk, regLog, contMap, reinvDone, spawned,
                   received, walkList, doneCh, doneSent, conts, results, checks>>

\* a Run that prints the error of RetrieveObject and goes on with what it has
RunRetrieveGoesOn ==
    /\ pc = "retrieve"
    /\ stdout' = stdout \cup {IF contFile.state = "ok" THEN Ev("open", NoC, 0, 0, openLine)
                              ELSE Ev("retrieveErr", NoC, 0, 0, retrieveErrLine)}
    /\ contMap' = contFile.conts
    /\ pc' = "spawn"
    /\ UNCHANGED <<run, contFile, config, unit, disk, regLog, reinvDone, spawned, received,
                   walkList, doneCh, doneSent, conts, results, checks>>

\* serialize.RetrieveObject and make(chan bool, len(contMap)), 226-233
RunRetrieve ==
    /\ pc = "retrieve"
    /\ IF contFile.state = "ok"
       THEN /\ stdout' = stdout \cup {Ev("open", NoC, 0, 0, openLine)}
            /\ contMap' = contFile.conts
            /\ pc' = "spawn"
       ELSE /\ stdout' = stdout \cup {Ev("retrieveErr", NoC, 0, 0, retrieveErrLine)}
            /\ pc' = "done"
            /\ UNCHANGED contMap
    /\ UNCHANGED <<run, contFile, config, unit, disk, regLog, reinvDone, spawned, received,
                   walkList, doneCh, doneSent, conts, results, checks>>

\* one iteration of the loop over contMap: go check.Run(...), 234-240
RunSpawn(c) ==
    /\ pc = "spawn"
    /\ c \in contMap \ spawned
    /\ spawned' = spawned \cup {c}
    /\ cpc' = [cpc EXCEPT ![c] = "ls"]
    /\ UNCHANGED <<run, contFile, config, unit, disk, regLog, pc, contMap, reinvDone, received,
                   walkList, doneCh, doneSent, scripts, idx, recvd, results, checks,
                   stdout>>

\* exec.Command("/usr/bin/cmk_admin -I").Output(), 241, after the loop over contMap
RunReinventory ==
    /\ pc = "spawn"
    /\ spawned = contMap
    /\ reinvDone' = TRUE
    /\ pc' = IF contMap = {} THEN "walk" ELSE "wait"
    /\ UNCHANGED <<run, contFile, config, unit, disk, regLog, contMap, spawned, received,
                   walkList, doneCh, doneSent, conts, results, checks, stdout>>

\* a Run that goes on to the walk with the first completion signal
RunWaitFirst ==
    /\ pc = "wait"
    /\ doneCh > 0
    /\ doneCh' = doneCh - 1
    /\ received' = received + 1
    /\ pc' = "walk"
    /\ UNCHANGED <<run, contFile, config, unit, disk, regLog, contMap, reinvDone, spawned,
                   walkList, doneSent, conts, results, checks, stdout>>

\* one iteration of "for _ = range contMap { <-done }", 242-244
RunWait ==
    /\ pc = "wait"
    /\ doneCh > 0
    /\ doneCh' = doneCh - 1
    /\ received' = received + 1
    /\ pc' = IF received' = Cardinality(contMap) THEN "walk" ELSE "wait"
    /\ UNCHANGED <<run, contFile, config, unit, disk, regLog, contMap, reinvDone, spawned,
                   walkList, doneSent, conts, results, checks, stdout>>

\* byte order of the atoms that occur in the names of markers
AtomOrder == <<US, "c1", "c2", "cpu", "mem", "x">>

Rank(a) == CHOOSE n \in 1 .. Len(AtomOrder) : AtomOrder[n] = a

RECURSIVE LexLess(_, _)
LexLess(a, b) ==
    IF b = <<>> THEN FALSE
    ELSE IF a = <<>> THEN TRUE
    ELSE IF Head(a) = Head(b) THEN LexLess(Tail(a), Tail(b))
    ELSE Rank(Head(a)) < Rank(Head(b))

\* the names of a directory in the order filepath.Walk visits them (sorted)
RECURSIVE SortNames(_)
SortNames(S) ==
    IF S = {} THEN <<>>
    ELSE LET m == CHOOSE x \in S : \A y \in S \ {x} : LexLess(x, y)
         IN  <<m>> \o SortNames(S \ {m})

\* the test of the walk's callback, 248-250: the text after the last "_" of the path
\* is no key of contMap
obsolete(path) == Last(Split(path, US)) \notin contMap

\* filepath.Walk's visit of its root, config.InventoryDir, 246-257.  The callback
\* ignores the error Walk hands it.  os.Remove of the directory fails when it is
\* missing or holds a file (or is denied); when it succeeds, Walk fails to read the
\* directory and calls the callback again, whose os.Remove then fails.
RunWalkRoot ==
    /\ pc = "walk"
    /\ \E denied \in BOOLEAN :
          IF obsolete(inventoryDir)
          THEN /\ fsDir' = IF fsDir /\ markers = {} /\ ~denied THEN FALSE ELSE fsDir
               /\ stdout' = stdout \cup {Ev("walkErr", NoC, 0, 0, walkErrLine)}
               /\ pc' = "done"
               /\ UNCHANGED walkList
          ELSE /\ walkList' = IF fsDir THEN SortNames(markers) ELSE <<>>
               /\ pc' = IF walkList' = <<>> THEN "done" ELSE "entries"
               /\ UNCHANGED <<fsDir, stdout>>
    /\ UNCHANGED <<run, contFile, config, unit, markers, regLog, contMap, reinvDone, spawned,
                   received, doneCh, doneSent, conts, results, checks>>

\* a walk that reports the failure of a removal and goes on to the next entry
RunWalkEntryGoesOn ==
    /\ pc = "entries"
    /\ \E denied \in BOOLEAN :
          LET name == Head(walkList)
          IN  /\ stdout' = IF obsolete(PathJoin(inventoryDir, name)) /\ denied
                           THEN stdout \cup {Ev("walkErr", NoC, 0, 0, walkErrLine)}
                           ELSE stdout
              /\ markers' = IF obsolete(PathJoin(inventoryDir, name)) /\ ~denied
                            THEN markers \ {name} ELSE markers
              /\ walkList' = Tail(walkList)
              /\ pc' = IF walkList' = <<>> THEN "done" ELSE "entries"
    /\ UNCHANGED <<run, contFile, config, unit, fsDir, regLog, contMap, reinvDone, spawned,
                   received, doneCh, doneSent, conts, results, checks>>

\* filepath.Walk's visit of one file of the directory, 246-257
RunWalkEntry ==
    /\ pc = "entries"
    /\ \E denied \in BOOLEAN :
          LET name == Head(walkList)
          IN  IF obsolete(PathJoin(inventoryDir, name)) /\ denied
              THEN /\ stdout' = stdout \cup {Ev("walkErr", NoC, 0, 0, walkErrLine)}
                   /\ pc' = "done"
                   /\ walkList' = <<>>
                   /\ UNCHANGED markers
              ELSE /\ markers' = IF obsolete(PathJoin(inventoryDir, name))
                                 THEN markers \ {name} ELSE markers
                   /\ walkList' = Tail(walkList)
                   /\ pc' = IF walkList' = <<>> THEN "done" ELSE "entries"
                   /\ UNCHANGED stdout
    /\ UNCHANGED <<run, contFile, config, unit, fsDir, regLog, contMap, reinvDone, spawned,
                   received, doneCh, doneSent, conts, results, checks>>

\* Run has returned: the process exits, and the monitor is started again on the same
\* container file
NextRun ==
    /\ pc = "done"
    /\ run < MaxRuns
    /\ run' = run + 1
    /\ contFile' = contFile
    /\ pc' = "stat"
    /\ contMap' = {}
    /\ reinvDone' = FALSE
    /\ spawned' = {}
    /\ doneCh' = 0
    /\ doneSent' = [c \in ContainerIDs |-> 0]
    /\ received' = 0
    /\ cpc' = [c \in ContainerIDs |-> "idle"]
    /\ scripts' = [c \in ContainerIDs |-> <<>>]
    /\ idx' = [c \in ContainerIDs |-> 1]
    /\ results' = [c \in ContainerIDs |-> 0]
    /\ recvd' = [c \in ContainerIDs |-> 0]
    /\ wk' = [k \in Checks |-> "none"]
    /\ rc' = [k \in Checks |-> "none"]
    /\ dch' = [k \in Checks |-> 0]
    /\ age' = [k \in Checks |-> 0]
    /\ dur' = [k \in Checks |-> 1]
    /\ hung' = [k \in Checks |-> FALSE]
    /\ walkList' = <<>>
    /\ stdout' = {}
    /\ UNCHANGED <<config, unit, disk, regLog>>

---------------------------------------------------------------------------
(* ContainerCheck, monitor.go 130-180 *)

\* capacity of the channel done of Run, 232
doneCap == Cardinality(contMap)

\* a return of ContainerCheck.Run without the deferred send
ReturnWithoutSignal(c) ==
    /\ cpc' = [cpc EXCEPT ![c] = "done"]
    /\ UNCHANGED <<doneCh, doneSent>>

\* the deferred "done <- true" of ContainerCheck.Run, 131, as the function returns
Return(c) ==
    /\ doneCh < doneCap
    /\ doneCh' = doneCh + 1
    /\ doneSent' = [doneSent EXCEPT ![c] = @ + 1]
    /\ cpc' = [cpc EXCEPT ![c] = "done"]

\* the test of 139 without its second disjunct
nothingToCheckNoScripts(ss) == Len(ss) = 0

\* whether ContainerCheck.Run finds nothing to check, 139
nothingToCheck(ss) == Len(ss) = 0 \/ Len(ss[1]) = 0

\* ContainerCheck.Run when "ls" has succeeded with output out, 137-143
lsSucceeds(c, out) ==
    LET ss == Split(TrimSpace(out), NL)
    IN  /\ stdout' = stdout \cup {Ev("gotChecks", c, 0, 0, gotChecksLine(c))}
        /\ scripts' = [scripts EXCEPT ![c] = ss]
        /\ IF nothingToCheck(ss)
           THEN Return(c)
           ELSE /\ cpc' = [cpc EXCEPT ![c] = "loop"]
                /\ UNCHANGED <<doneCh, doneSent>>

\* a ContainerCheck.Run that prints the error of "ls" and goes on to checkAll with
\* the scripts of the container
lsFailsGoesOn(c, err) ==
    /\ stdout' = stdout \cup {Ev("lsErr", c, 0, 0, lsErrLine(c, err))}
    /\ scripts' = [scripts EXCEPT ![c] = Split(TrimSpace(Listing(c)), NL)]
    /\ cpc' = [cpc EXCEPT ![c] = "loop"]
    /\ UNCHANGED <<doneCh, doneSent>>

\* ContainerCheck.Run when "ls" has failed with err, 133-136
lsFails(c, err) ==
    /\ stdout' = stdout \cup {Ev("lsErr", c, 0, 0, lsErrLine(c, err))}
    /\ Return(c)
    /\ UNCHANGED scripts

\* ContainerCheck.Run up to the call of checkAll, 130-143
ContainerCheckRun(c) ==
    /\ cpc[c] = "ls"
    /\ \E r \in LsResults(c) : IF r.err # Nil THEN lsFails(c, r.err) ELSE lsSucceeds(c, r.out)
    /\ UNCHANGED <<run, contFile, config, unit, disk, regLog, orch, idx, recvd, results,
                   checks>>

\* a checkAll that never finds the marker
markerNeverFound(svc) == FALSE

\* os.Stat(inventoryPath) finds the marker, 156-158
markerExists(svc) == fsDir /\ svc \in markers

\* whether os.Stat(inventoryPath) of check k fails with an error other than "not
\* exist" (no permission, a part of the path that is no directory): left open for
\* FreeCheck
StatFailures(k) == IF k = FreeCheck THEN BOOLEAN ELSE {FALSE}

\* os.IsNotExist(err) of 158, for the err of os.Stat, 157
isNotExist(svc, failed) == ~failed /\ ~markerExists(svc)

\* os.Create(inventoryPath), 164: fails, unnoticed, when the directory is missing
createMarker(svc) == IF fsDir THEN markers \cup {svc} ELSE markers

\* a channel results that holds one value
resultsCapOne(c) == 1

\* capacity of the channel results of checkAll, 153
resultsCap(c) == Len(scripts[c])

\* the call of "cmk_admin -s <service> -a <contact_group>" for script i of c, 159
call(c, i, ok) ==
    [run |-> run, c |-> c, i |-> i, svc |-> serviceName(scripts[c][i], c),
     grp |-> contactGroup(c), ok |-> ok]

\* "go c.serviceCheck(s).checkWithTimeout(results, t)", 166, of a script that takes d,
\* and the step of the loop to the next script
spawnCheck(c, i, d) ==
    /\ wk' = [wk EXCEPT ![<<c, i>>] = "select"]
    /\ rc' = [rc EXCEPT ![<<c, i>>] = "running"]
    /\ dur' = [dur EXCEPT ![<<c, i>>] = d.d]
    /\ hung' = [hung EXCEPT ![<<c, i>>] = d.hung]
    /\ idx' = [idx EXCEPT ![c] = i + 1]
    /\ cpc' = [cpc EXCEPT ![c] = IF i = Len(scripts[c]) THEN "wait" ELSE "loop"]
    /\ UNCHANGED <<doneCh, doneSent, dch, age>>

\* a checkAll that prints the failure of the registration and goes on with the script
registerFailsGoesOn(c, i, d) ==
    /\ regLog' = regLog \cup {call(c, i, FALSE)}
    /\ stdout' = stdout
          \cup {Ev("regFail", c, i, 0, regFailLine(serviceName(scripts[c][i], c), ExitErr))}
    /\ spawnCheck(c, i, d)
    /\ UNCHANGED markers

\* the iteration for script i when its marker is missing and the registration
\* fails, 160-163: checkAll returns
registerFails(c, i, d) ==
    /\ regLog' = regLog \cup {call(c, i, FALSE)}
    /\ stdout' = stdout
          \cup {Ev("regFail", c, i, 0, regFailLine(serviceName(scripts[c][i], c), ExitErr))}
    /\ Return(c)
    /\ UNCHANGED <<markers, idx, checks>>

\* the iteration for script i when its marker is missing and the registration
\* succeeds, 159-166
registerSucceeds(c, i, d) ==
    /\ regLog' = regLog \cup {call(c, i, TRUE)}
    /\ markers' = createMarker(serviceName(scripts[c][i], c))
    /\ spawnCheck(c, i, d)
    /\ UNCHANGED stdout

\* the iteration for script i when os.Stat does not report its marker missing,
\* 157-158, 166
alreadyRegistered(c, i, d) ==
    /\ spawnCheck(c, i, d)
    /\ UNCHANGED <<regLog, markers, stdout>>

\* one iteration of checkAll's loop over the scripts, 154-167
checkAllLoop(c) ==
    /\ cpc[c] = "loop"
    /\ \E ok \in BOOLEAN, d \in Durations(<<c, idx[c]>>), failed \in StatFailures(<<c, idx[c]>>) :
          IF isNotExist(serviceName(scripts[c][idx[c]], c), failed)
          THEN IF ok THEN registerSucceeds(c, idx[c], d) ELSE registerFails(c, idx[c], d)
          ELSE alreadyRegistered(c, idx[c], d)
    /\ UNCHANGED <<run, contFile, config, unit, fsDir, orch, scripts, recvd, results>>

\* a second loop of checkAll that ends with the first signal
allReceivedFirst(c, n) == n >= 1

\* the loop "for _ = range scripts" has made n iterations and ends, 168
allReceived(c, n) == n = Len(scripts[c])

\* one iteration of "for _ = range scripts { <-results }", 168-171
checkAllWait(c) ==
    /\ cpc[c] = "wait"
    /\ results[c] > 0
    /\ results' = [results EXCEPT ![c] = @ - 1]
    /\ recvd' = [recvd EXCEPT ![c] = @ + 1]
    /\ IF allReceived(c, recvd'[c])
       THEN Return(c)
       ELSE UNCHANGED <<cpc, doneCh, doneSent>>
    /\ UNCHANGED <<run, contFile, config, unit, disk, regLog, orch, scripts, idx, checks,
                   stdout>>

---------------------------------------------------------------------------
(* ServiceCheck, monitor.go 99-119 *)

\* ServiceCheck.Service of the check of script i of container c, 178
service(k) == serviceName(scripts[k[1]][k[2]], k[1])

\* the process lives until Run has returned
Alive == pc # "done"

\* a check has something left that depends on time
Live(w, r, h) == w = "select" \/ (r = "running" /\ ~h)

\* the remote command of runCheck returns now
Returns(k) == rc[k] = "running" /\ ~hung[k] /\ age[k] >= dur[k]

\* a timer that fires one unit late
ExpiredLate(k) == age[k] >= Timeout + 1

\* the timer of checkWithTimeout's select has fired, 115
Expired(k) == age[k] >= Timeout

\* runCheck: the command returns, the line is printed, done <- true, 99-107
runCheck(k) ==
    /\ Alive
    /\ Returns(k)
    /\ dch[k] < 1
    /\ \E res \in ScriptResults(k, service(k)) :
          stdout' = stdout \cup {Ev("runCheck", k[1], k[2], age[k], checkLine(service(k), res))}
    /\ dch' = [dch EXCEPT ![k] = 1]
    /\ rc' = [rc EXCEPT ![k] = "done"]
    /\ age' = [age EXCEPT ![k] = IF Live(wk[k], "done", hung[k]) THEN @ ELSE 0]
    /\ UNCHANGED <<run, contFile, config, unit, disk, regLog, orch, doneCh, doneSent, conts,
                   results, wk, dur, hung>>

\* checkWithTimeout's select takes "case <-done", 113-114
checkWithTimeoutDone(k) ==
    /\ Alive
    /\ wk[k] = "select"
    /\ dch[k] > 0
    /\ results[k[1]] < resultsCap(k[1])
    /\ dch' = [dch EXCEPT ![k] = 0]
    /\ results' = [results EXCEPT ![k[1]] = @ + 1]
    /\ wk' = [wk EXCEPT ![k] = "done"]
    /\ age' = [age EXCEPT ![k] = IF Live("done", rc[k], hung[k]) THEN @ ELSE 0]
    /\ UNCHANGED <<run, contFile, config, unit, disk, regLog, orch, doneCh, doneSent, conts,
                   rc, dur, hung, stdout>>

\* checkWithTimeout's select takes "case <-time.After(d)", 115-117
checkWithTimeoutExpire(k) ==
    /\ Alive
    /\ wk[k] = "select"
    /\ Expired(k)
    /\ results[k[1]] < resultsCap(k[1])
    /\ stdout' = stdout \cup {Ev("timeout", k[1], k[2], age[k], timeOutMsg(service(k)))}
    /\ results' = [results EXCEPT ![k[1]] = @ + 1]
    /\ wk' = [wk EXCEPT ![k] = "done"]
    /\ age' = [age EXCEPT ![k] = IF Live("done", rc[k], hung[k]) THEN @ ELSE 0]
    /\ UNCHANGED <<run, contFile, config, unit, disk, regLog, orch, doneCh, doneSent, conts,
                   rc, dch, dur, hung>>

\* a step of a check is due at the present time
Urgent(k) == Returns(k) \/ (wk[k] = "select" /\ (dch[k] > 0 \/ Expired(k)))

\* time passes by one unit, once every step that is due has been taken
Tick ==
    /\ Alive
    /\ \A k \in Checks : ~Urgent(k)
    /\ \E k \in Checks : Live(wk[k], rc[k], hung[k])
    /\ age' = [k \in Checks |-> IF Live(wk[k], rc[k], hung[k]) THEN age[k] + 1 ELSE 0]
    /\ UNCHANGED <<run, contFile, config, unit, disk, regLog, orch, doneCh, doneSent, conts,
                   results, wk, rc, dch, dur, hung, stdout>>

---------------------------------------------------------------------------

Step ==
    \/ RunStat
    \/ RunRetrieve
    \/ \E c \in ContainerIDs : RunSpawn(c)
    \/ RunReinventory
    \/ RunWait
    \/ RunWalkRoot
    \/ RunWalkEntry
    \/ \E c \in ContainerIDs : ContainerCheckRun(c)
    \/ \E c \in ContainerIDs : checkAllLoop(c)
    \/ \E c \in ContainerIDs : checkAllWait(c)
    \/ \E k \in Checks : runCheck(k)
    \/ \E k \in Checks : checkWithTimeoutDone(k)
    \/ \E k \in Checks : checkWithTimeoutExpire(k)
    \/ Tick

\* one invocation of the monitor
Next == Step

---------------------------------------------------------------------------
(* ServiceCheck.validate called on its own, monitor.go 91-97 *)

\* the pieces an output of a script is made of: a severity, the separators, a dash,
\* the names of services
Words ==
    {<<"0">>, <<SP>>, <<"\t">>, <<NL>>, <<"-">>}
        \cup {serviceName(<<"cpu", DOT, "sh">>, c) : c \in ContainerIDs}

RECURSIVE Msgs(_)
Msgs(n) == IF n = 0 THEN {<<>>} ELSE Msgs(n - 1) \cup {m \o w : m \in Msgs(n - 1), w \in Words}

InitValidate ==
    /\ run = 1
    /\ contFile = [state |-> "absent", conts |-> {}]
    /\ inventoryDir = DefaultInventoryDir
    /\ fsDir = FALSE /\ markers = {}
    /\ regLog = {}
    /\ FreshRun
    /\ valArg \in {[svc |-> serviceName(<<"cpu", DOT, "sh">>, c), msg |-> m] :
                      c \in ContainerIDs, m \in Msgs(MaxWords)}
    /\ valRet = [done |-> FALSE, out |-> <<>>]

\* s.validate(msg) returns
Validate ==
    /\ ~valRet.done
    /\ valRet' = [done |-> TRUE, out |-> validate(valArg.svc, valArg.msg)]
    /\ UNCHANGED <<run, contFile, config, valArg, disk, regLog, orch, doneCh, doneSent,
                   conts, results, checks, stdout>>

NextValidate == Validate

SpecValidate == InitValidate /\ [][NextValidate]_vars

Spec == Init /\ [][Next]_vars

\* a run on an inventory directory whose name ends in the id of a container and which
\* holds markers of an earlier run
InitFair == Init /\ inventoryDir # DefaultInventoryDir /\ markers # {}

\* the goroutines that can run are run and the timers fire: a step that stays
\* possible is taken
SpecFair == InitFair /\ [][Next]_vars /\ WF_vars(Next)

\* the monitor is run MaxRuns times on the inventory of the one container c1
InitRuns == Init /\ contFile = [state |-> "ok", conts |-> {<<"c1">>}]

NextRuns == Step \/ NextRun

SpecRuns == InitRuns /\ [][NextRuns]_vars

---------------------------------------------------------------------------
(* What the claims speak of *)

c1 == <<"c1">>
xc2 == <<"x", US, "c2">>

\* the lines printed for check k: by its runCheck and by its checkWithTimeout
checkLines(k) ==
    {e \in stdout : e.c = k[1] /\ e.i = k[2] /\ e.site \in {"runCheck", "timeout"}}

\* the lines printed for container c and its checks
containerLines(c) == {e \in stdout : e.c = c}

\* the registration calls container c has made in this run
callsOf(c) == {e \in regLog : e.c = c /\ e.run = run}

\* "ls" of container c succeeded and listed nothing
BlankListing(c) == scripts[c] = << <<>> >>

\* the checks of container c that were started
started(c) == {k \in Checks : k[1] = c /\ wk[k] # "none"}

\* all of the state of container c but the clocks of its checks
view(c) ==
    <<cpc[c], scripts[c], idx[c], recvd[c], results[c], doneSent[c],
      [k \in {x \in Checks : x[1] = c} |-> <<wk[k], rc[k], dch[k], dur[k], hung[k]>>],
      containerLines(c), callsOf(c)>>

\* the text after the last "_" of the name of a marker
idOf(m) == Last(Split(m, US))

---------------------------------------------------------------------------
(* C1 .. C10 *)

\* C1: for every check that checkWithTimeout has finished, with timeout t and remote
\* duration d: if d > t, the one line printed for it is the Critical line
\* "2 <service> - Timeout occured during check", printed no earlier than t; if d <= t,
\* the one line printed for it is the line of the check itself (the validated output,
\* or the error line of a failed command) and no timeout line is printed.  At d = t
\* the command returns as the timer fires and the select may take either case: the
\* claim is read as leaving d = t open.
C1_TimeoutLineOrOwnLine ==
    \A k \in Checks :
        wk[k] = "done" =>
            /\ checkLines(k) # {}
            /\ (hung[k] \/ dur[k] > Timeout) =>
                   \A e \in checkLines(k) :
                       /\ e.site = "timeout"
                       /\ e.text = timeOutMsg(service(k))
                       /\ e.at >= Timeout
            /\ (~hung[k] /\ dur[k] < Timeout) =>
                   \A e \in checkLines(k) :
                       /\ e.site = "runCheck"
                       /\ e.text \in {checkLine(service(k), res) :
                                         res \in ScriptResults(k, service(k))}

\* C2: once the timeout line of a check has been printed, nothing more is printed for
\* that check: the abandoned runCheck prints no line.
C2_NothingAfterTimeoutLine ==
    [][\A k \in Checks :
          (\E e \in checkLines(k) : e.site = "timeout") => checkLines(k)' = checkLines(k)]_vars

\* C3: after the cleanup pass at the end of Run, no marker is left whose text after
\* the last "_" is no key of the inventory (a marker cpu_c1 of a prior run is gone
\* when c1 is not in the inventory), and no other marker is ever removed.
C3_CleanupRemovesExactlyObsolete ==
    /\ [](pc = "done" /\ reinvDone => \A m \in markers : idOf(m) \in contMap)
    /\ [][\A m \in markers : (reinvDone /\ idOf(m) \in contMap) => m \in markers']_vars

\* C4: a service that was registered with success, and whose marker exists, is not
\* registered again: no later run calls the registration command for it, and no other
\* call for it has succeeded.
C4_RegisteredOnce ==
    \A e \in regLog :
        (e.ok /\ fsDir /\ e.svc \in markers) =>
            \A f \in regLog : f.svc = e.svc => (f.run <= e.run /\ (f.ok => f = e))

\* C4, reached: in the second run checkAll has gone past both scripts of c1, whose
\* markers the first run created, and the second run has registered nothing
C4_Witness ==
    /\ run = 2
    /\ cpc[c1] = "wait"
    /\ Cardinality(regLog) = 2
    /\ \A e \in regLog : e.run = 1 /\ e.ok /\ e.c = c1 /\ fsDir /\ e.svc \in markers

\* C5, as claimed: when "ls" succeeds with empty or blank output, no line is printed
\* for the container and no check is started.
C5_BlankListingSilent ==
    \A c \in ContainerIDs :
        BlankListing(c) => containerLines(c) = {} /\ started(c) = {}

\* C5, as amended: when "ls" succeeds with empty or blank output, the one line printed
\* for the container is the OK line "0 <name> - Got checks for container"; no check is
\* started, nothing is registered, and completion is signalled once.
C5_BlankListingOneOkLine ==
    \A c \in ContainerIDs :
        BlankListing(c) =>
            /\ containerLines(c) = {Ev("gotChecks", c, 0, 0, gotChecksLine(c))}
            /\ gotChecksLine(c)[1] = Digit(OK)
            /\ started(c) = {}
            /\ callsOf(c) = {}
            /\ cpc[c] = "done"
            /\ doneSent[c] = 1

\* C5, reached: the listing of c1 was blank while the check of x_c2 was started
C5_Witness == BlankListing(c1) /\ cpc[c1] = "done" /\ started(xc2) # {}

\* C6: ContainerCheck.Run has sent one value on done when it has returned, by
\* whichever path, and none before.
C6_OneCompletionSignal ==
    \A c \in ContainerIDs : doneSent[c] = IF cpc[c] = "done" THEN 1 ELSE 0

\* C6, reached: c1 has returned from a failed registration of its second script, and
\* x_c2 from a failed "ls"
C6_Witness ==
    /\ cpc[c1] = "done" /\ \E e \in stdout : e.site = "regFail" /\ e.c = c1 /\ e.i = 2
    /\ cpc[xc2] = "done" /\ \E e \in stdout : e.site = "lsErr" /\ e.c = xc2
    /\ doneSent[c1] = 1 /\ doneSent[xc2] = 1

\* C7: the re-inventory command is run only after Run has received a completion
\* signal from every container, and the cleanup walk only after the re-inventory.
C7_ReinventoryAfterAllSignals ==
    /\ reinvDone => received = Cardinality(contMap)
    /\ pc \in {"walk", "entries"} => reinvDone

\* C8, as claimed: when ContainerCheck.Run has returned, checkAll has received a
\* signal from every check it started, and no check of the container is still to
\* deliver its signal.
C8_AllSignalsReceived ==
    \A c \in ContainerIDs :
        cpc[c] = "done" =>
            /\ recvd[c] = Cardinality(started(c))
            /\ \A k \in started(c) : wk[k] = "done"

\* C8, as amended: when checkAll has returned after its loop went through every
\* script, it has received len(scripts) signals, one from every check it started, and
\* no check of the container is still to deliver its signal; when it has returned on
\* a failed registration, it has received none.
C8_AllSignalsUnlessAborted ==
    \A c \in ContainerIDs :
        (cpc[c] = "done" /\ started(c) # {}) =>
            IF \E e \in callsOf(c) : ~e.ok
            THEN recvd[c] = 0
            ELSE /\ recvd[c] = Len(scripts[c])
                 /\ Cardinality(started(c)) = Len(scripts[c])
                 /\ \A k \in started(c) : wk[k] = "done"
                 /\ results[c] = 0

\* C8, reached: checkAll of c1 has returned after both checks, the first timed out
C8_Witness ==
    /\ cpc[c1] = "done"
    /\ recvd[c1] = 2
    /\ \E e \in checkLines(<<c1, 1>>) : e.site = "timeout"

\* C9: when the registration fails for script k of a container, checkAll prints one
\* diagnostic line, creates no marker for the script, registers and starts nothing
\* for script k or a later one, and returns; the step changes nothing of another
\* container.
C9_RegistrationFailureStops ==
    /\ [](\A e \in regLog :
             (~e.ok /\ e.run = run) =>
                 /\ {x \in containerLines(e.c) : x.site = "regFail"}
                       = {Ev("regFail", e.c, e.i, 0, regFailLine(e.svc, ExitErr))}
                 /\ e.svc \notin markers
                 /\ \A k \in started(e.c) : k[2] < e.i
                 /\ \A f \in callsOf(e.c) : f.i >= e.i => f = e
                 /\ cpc[e.c] = "done")
    /\ [][\A c \in ContainerIDs :
             (\E e \in callsOf(c)' \ callsOf(c) : ~e.ok) =>
                 \A o \in ContainerIDs \ {c} : view(o)' = view(o)]_vars

\* C9, reached: the registration of the second script of c1 has failed after the first
\* check was started, and the check of x_c2 has printed its own line
C9_Witness ==
    /\ \E e \in callsOf(c1) : ~e.ok /\ e.i = 2
    /\ started(c1) = {<<c1, 1>>}
    /\ \E e \in checkLines(<<xc2, 1>>) : e.site = "runCheck"

\* C10: when "ls" fails for a container, the one line printed for the container is a
\* Critical line, nothing is registered and no check is started for it, its
\* completion is signalled, and the step changes nothing of another container.
C10_DiscoveryFailureContained ==
    /\ [](\A c \in ContainerIDs :
             (\E e \in stdout : e.site = "lsErr" /\ e.c = c) =>
                 /\ containerLines(c) = {Ev("lsErr", c, 0, 0, lsErrLine(c, ExitErr))}
                 /\ lsErrLine(c, ExitErr)[1] = Digit(Critical)
                 /\ callsOf(c) = {}
                 /\ started(c) = {}
                 /\ cpc[c] = "done"
                 /\ doneSent[c] = 1)
    /\ [][\A c \in ContainerIDs :
             (\E e \in stdout' \ stdout : e.site = "lsErr" /\ e.c = c) =>
                 \A o \in ContainerIDs \ {c} : view(o)' = view(o)]_vars

\* C10, reached: "ls" has failed for x_c2, and both checks of c1 were started and
\* have delivered their signals
C10_Witness ==
    /\ \E e \in stdout : e.site = "lsErr" /\ e.c = xc2
    /\ cpc[c1] = "done"
    /\ recvd[c1] = 2

---------------------------------------------------------------------------
(* C11 .. C20 *)

\* C11: when the container file does not exist, Run prints the one line
\* "0 <CheckName> - Directory does not exists <path>" and does nothing else: it starts
\* no container, runs no re-inventory and no registration, and no marker is created
\* or removed.
C11_MissingContainerFile ==
    /\ [](contFile.state = "absent" =>
             /\ pc \in {"stat", "done"}
             /\ stdout = IF pc = "done" THEN {Ev("noDir", NoC, 0, 0, noDirLine)} ELSE {}
             /\ noDirLine = <<"0", SP>> \o CheckName
                    \o <<SP, "-", SP, "Directory", SP, "does", SP, "not", SP, "exists", SP>>
                    \o ContainerFile \o <<NL>>
             /\ spawned = {}
             /\ \A c \in ContainerIDs : cpc[c] = "idle"
             /\ ~reinvDone
             /\ regLog = {})
    /\ [][contFile.state = "absent" => (markers' = markers /\ fsDir' = fsDir)]_vars

\* C11, reached: Run has returned on a missing container file while the inventory
\* directory holds markers
C11_Witness == contFile.state = "absent" /\ pc = "done" /\ markers # {} /\ stdout # {}

\* strings.Fields: the tokens of s between runs of white space
RECURSIVE FieldsAcc(_, _, _)
FieldsAcc(s, cur, acc) ==
    IF s = <<>> THEN (IF cur = <<>> THEN acc ELSE Append(acc, cur))
    ELSE IF IsSpace(Head(s))
         THEN FieldsAcc(Tail(s), <<>>, IF cur = <<>> THEN acc ELSE Append(acc, cur))
         ELSE FieldsAcc(Tail(s), Append(cur, Head(s)), acc)

Fields(s) == FieldsAcc(s, <<>>, <<>>)

\* the generic Critical line of a service
genericLine(svc) ==
    <<"2", SP>> \o svc
        \o <<SP, "-", SP, "Error", SP, "encountered", SP, "while", SP, "monitoring",
             SP, "the", SP, "service", NL>>

\* C12, as claimed: validate returns the output unchanged when the second of its
\* white-space-delimited tokens is the service name, and the generic Critical line
\* "2 <service> - Error encountered while monitoring the service" for any other second
\* token and for an output of fewer than two tokens.
C12_ValidateSecondToken ==
    valRet.done =>
        valRet.out = IF Len(Fields(valArg.msg)) >= 2 /\ Fields(valArg.msg)[2] = valArg.svc
                     THEN valArg.msg
                     ELSE genericLine(valArg.svc)

\* C12, as amended: validate cuts the output at its single spaces; it returns the
\* output unchanged when there are two fields or more and the second field, whole, is
\* the service name, and the generic Critical line otherwise (so also when the name
\* is followed by the newline or a tab, or follows a tab or a second space).
C12_ValidateSecondSpaceField ==
    valRet.done =>
        valRet.out = IF Len(Split(valArg.msg, SP)) >= 2 /\ Split(valArg.msg, SP)[2] = valArg.svc
                     THEN valArg.msg
                     ELSE genericLine(valArg.svc)

\* C12, reached: validate has replaced an output whose second token is the service
\* name, and the name ends the output's line
C12_Witness ==
    /\ valRet.done
    /\ valRet.out = genericLine(valArg.svc)
    /\ valArg.msg = <<"0", SP>> \o valArg.svc \o <<NL>>

\* the cleanup walk of Run has started (or Run has returned)
walkStarted == pc \in {"walk", "entries", "done"}

\* C13: the cleanup walk starts only when Run has received a completion signal from
\* every container, each of which has returned; a container calls the registration
\* command and creates markers only before its completion signal; so no registration
\* is called and no marker is created once the walk has started.
C13_NoMarkerWriteDuringWalk ==
    /\ [](walkStarted =>
             /\ received = Cardinality(contMap)
             /\ \A c \in contMap : cpc[c] = "done" /\ doneSent[c] = 1)
    /\ [][\A c \in ContainerIDs :
             (callsOf(c)' # callsOf(c) \/ \E k \in Checks : k[1] = c /\ wk[k] = "none" /\ wk'[k] # "none")
                 => (doneSent[c] = 0 /\ ~walkStarted)]_vars
    /\ [][~(markers' \subseteq markers) => (~walkStarted /\ ~walkStarted')]_vars

\* C13, reached: the walk visits the entries of a directory in which this run has
\* created a marker
C13_Witness ==
    /\ pc = "entries"
    /\ \E e \in regLog : e.ok /\ e.svc \in markers /\ e.svc \in {walkList[n] : n \in 1 .. Len(walkList)}

\* the lines of the walk's error that were printed
walkErrLines == {e \in stdout : e.site = "walkErr"}

\* C14: the step of the walk in which a removal fails prints the one diagnostic
\* line of the walk (none was printed before, none is printed while the walk goes
\* on), ends the walk with the entries that are left unvisited, and removes nothing;
\* the markers removed before it stay removed.
C14_FirstDeletionErrorAborts ==
    /\ [](pc # "done" => walkErrLines = {})
    /\ [](walkErrLines \subseteq {Ev("walkErr", NoC, 0, 0, walkErrLine)})
    /\ [][walkErrLines' # walkErrLines =>
             /\ walkErrLines = {}
             /\ pc' = "done"
             /\ walkList' = <<>>
             /\ markers' = markers]_vars
    /\ [][pc = "entries" => markers' \subseteq markers]_vars

\* C14, reached: the walk has removed cpu_x_c2, the removal of mem_x_c2 has failed,
\* and the error was printed
C14_Witness ==
    /\ pc = "done"
    /\ walkErrLines # {}
    /\ <<"cpu", US, "x", US, "c2">> \notin markers
    /\ <<"mem", US, "x", US, "c2">> \in markers

\* C15: when RetrieveObject fails, Run prints one Critical line and returns: it starts
\* no container, runs no re-inventory and no walk, and leaves the markers alone.  When
\* it succeeds, Run reaches the cleanup walk, whichever "ls", script, validation or
\* registration fails or times out in a container.
C15_OnlyDeserializationIsFatal ==
    /\ [](contFile.state = "corrupt" =>
             /\ pc \in {"stat", "retrieve", "done"}
             /\ stdout = IF pc = "done" THEN {Ev("retrieveErr", NoC, 0, 0, retrieveErrLine)}
                         ELSE {}
             /\ retrieveErrLine[1] = Digit(Critical)
             /\ spawned = {}
             /\ ~reinvDone
             /\ walkList = <<>>)
    /\ [][contFile.state = "corrupt" => (markers' = markers /\ fsDir' = fsDir)]_vars
    /\ (contFile.state = "ok" /\ pc = "stat") ~> (pc = "walk")

\* C15, reached: Run is at the walk after "ls" failed for x_c2, the first check of c1
\* timed out and the registration of its second script failed
C15_Witness ==
    /\ pc = "walk"
    /\ \E e \in stdout : e.site = "lsErr" /\ e.c = xc2
    /\ \E e \in checkLines(<<c1, 1>>) : e.site = "timeout"
    /\ \E e \in stdout : e.site = "regFail" /\ e.c = c1 /\ e.i = 2

\* C16: "ls" and the registration command return in the model, and the remote scripts
\* may never return.  Run gets from its start to its return, through the cleanup walk
\* when the container file could be read; and while a container waits for its checks,
\* none of them is older than the timeout.
C16_TerminatesDespiteHungChecks ==
    /\ (pc = "stat") ~> (pc = "done")
    /\ (pc = "spawn") ~> (pc = "walk")
    /\ [](\A k \in Checks : wk[k] = "select" => age[k] <= Timeout)
    /\ [](\A c \in ContainerIDs :
             (cpc[c] = "done" /\ recvd[c] > 0) => \A k \in started(c) : wk[k] = "done")

\* C16, reached: Run has returned although no remote script of the two containers has
\* returned; every check has its timeout line
C16_Witness ==
    /\ pc = "done"
    /\ contMap = ContainerIDs
    /\ \A k \in Checks : hung[k] /\ rc[k] = "running"
                              /\ \E e \in checkLines(k) : e.site = "timeout"

\* the names of scripts without their extension
scriptBases == {<<"cpu">>, <<"mem">>}

\* the markers of container X: "<scriptBase>_<X>"
markersOf(X) == {serviceName(b \o <<DOT, "sh">>, X) : b \in scriptBases}

\* C17: the cleanup pass removes no marker "<scriptBase>_<X>" of a container X that is
\* a key of the inventory, whether checkAll created it or a prior run left it.
C17_MarkerOfPresentContainerKept ==
    [][\A X \in contMap : \A m \in markersOf(X) : m \in markers => m \in markers']_vars

\* C18: the visit of the walk's root, the inventory directory, hands nothing to the
\* delete operation: it neither removes the directory nor ends the walk with an error.
C18_RootNeverDeleted ==
    [][pc = "walk" => (fsDir' = fsDir /\ walkErrLines' = walkErrLines)]_vars

\* the checks of container c whose checkWithTimeout has sent on results
delivered(c) == {k \in started(c) : wk[k] = "done"}

C20_MarkerImpliesRegistered ==
    /\ [](~walkStarted =>
             \A k \in Checks :
                 wk[k] # "none" =>
                     \/ \E e \in callsOf(k[1]) : e.i = k[2] /\ e.ok /\ e.svc = service(k)
                     \/ fsDir /\ service(k) \in markers)
    /\ [][\A m \in markers' \ markers :
             \E e \in regLog' \ regLog : e.ok /\ e.svc = m /\ e.run = run]_vars

====
